---- MODULE Spec2Model ----
(***************************************************************************)
(* Adjacency-list graphs of the repository and the algorithms run on them: *)
(*   undirected_graph.py  Vertex, UndirectedEdge, UndirectedGraph          *)
(*                        (Prim, two Kruskal variants)                     *)
(*   directed_graph.py    Vertex, DirectedEdge, DirectedGraph              *)
(*                        (the Bellman-Ford family)                        *)
(* graph_basics.py and union_find.py are imported by both files; what the  *)
(* model needs of them (vertex lookup, the explored flag, the union-find   *)
(* leaders, the infinity constant, the path reconstruction from hop        *)
(* tables) follows their documented contract.                              *)
(*                                                                         *)
(* A vertex object is identified by its id, an edge object by its record:  *)
(* a graph never holds two edges between the same endpoints in the same    *)
(* role, so equality of records coincides with identity of objects.        *)
(***************************************************************************)
EXTENDS Integers, Sequences, FiniteSets, TLC

VARIABLES ug, dg, res

vars == <<ug, dg, res>>

----------------------------------------------------------------------------
(* Bounds of the explored inputs *)

\* mutation calls use costs / lengths 1..MaxWeight
MaxWeight == 1
\* add_edge adds an edge only while the graph holds fewer than MaxEdges edges
MaxEdges == 2

\* the vertex ids of the mutation calls
Ids == {0, 1, 2}
Weights == 1..MaxWeight

----------------------------------------------------------------------------
(* Generic list helpers (Python list semantics) *)

Range(s) == {s[i] : i \in DOMAIN s}

\* list.remove(x): drops the first element equal to x
ListRemove(s, x) ==
    LET i == CHOOSE k \in DOMAIN s : s[k] = x /\ \A j \in 1..(k - 1) : s[j] # x
    IN  SubSeq(s, 1, i - 1) \o SubSeq(s, i + 1, Len(s))

\* restriction of a per-vertex table to the vertices that are left
Without(f, id) == [x \in (DOMAIN f) \ {id} |-> f[x]]

OK == "ok"
IllegalArgumentError == "IllegalArgumentError"

Raised(g, e) == [g |-> g, err |-> e]
Done(g) == [g |-> g, err |-> OK]

----------------------------------------------------------------------------
(* Undirected graph: construction and mutation *)

\* UndirectedGraph(): no vertex, no edge
UndirectedGraph_init ==
    [vtx_list |-> <<>>, edge_list |-> <<>>,
     edges |-> <<>>, neighbors |-> <<>>, explored |-> <<>>]

UndirectedEdge(end1, end2, cost) == [end1 |-> end1, end2 |-> end2, cost |-> cost]

\* AbstractGraph._find_vtx: the vertex with the given id, or None
U_find_vtx(g, vtx_id) == vtx_id \in Range(g.vtx_list)

\* Vertex.get_edge_with_neighbor: the edges of v that join v and neighbor
U_get_edge_with_neighbor(g, v, neighbor) ==
    {i \in DOMAIN g.edges[v] :
        \/ g.edges[v][i].end1 = v /\ g.edges[v][i].end2 = neighbor
        \/ g.edges[v][i].end1 = neighbor /\ g.edges[v][i].end2 = v}

\* the neighbor of v on edge e, as Vertex.add_edge / remove_edge find it
U_neighbor_of(v, e) == IF e.end1 = v THEN e.end2 ELSE e.end1

\* a variant of Vertex.add_edge without the test for an existing edge to the
\* same neighbor
U_Vertex_add_edge_unchecked(g, v, new_edge) ==
    IF new_edge.end1 # v /\ new_edge.end2 # v
    THEN Raised(g, IllegalArgumentError)
    ELSE Done([g EXCEPT !.edges[v] = Append(@, new_edge),
                        !.neighbors[v] = @ \cup {U_neighbor_of(v, new_edge)}])

\* Vertex.add_edge
U_Vertex_add_edge(g, v, new_edge) ==
    IF new_edge.end1 # v /\ new_edge.end2 # v
    THEN Raised(g, IllegalArgumentError)
    ELSE IF U_neighbor_of(v, new_edge) \in g.neighbors[v]
    THEN Raised(g, IllegalArgumentError)
    ELSE Done([g EXCEPT !.edges[v] = Append(@, new_edge),
                        !.neighbors[v] = @ \cup {U_neighbor_of(v, new_edge)}])

\* Vertex.remove_edge
U_Vertex_remove_edge(g, v, edge_to_remove) ==
    IF edge_to_remove.end1 # v /\ edge_to_remove.end2 # v
    THEN Raised(g, IllegalArgumentError)
    ELSE IF U_neighbor_of(v, edge_to_remove) \notin g.neighbors[v]
    THEN Raised(g, IllegalArgumentError)
    ELSE IF edge_to_remove \notin Range(g.edges[v])
    THEN Raised([g EXCEPT !.neighbors[v] = @], "ValueError")
    ELSE Done([g EXCEPT !.edges[v] = ListRemove(@, edge_to_remove),
                        !.neighbors[v] = @ \ {U_neighbor_of(v, edge_to_remove)}])

\* UndirectedGraph.add_vtx
UndirectedGraph_add_vtx(g, new_vtx_id) ==
    IF U_find_vtx(g, new_vtx_id)
    THEN Raised(g, IllegalArgumentError)
    ELSE Done([vtx_list |-> Append(g.vtx_list, new_vtx_id),
               edge_list |-> g.edge_list,
               edges |-> (new_vtx_id :> <<>>) @@ g.edges,
               neighbors |-> (new_vtx_id :> {}) @@ g.neighbors,
               explored |-> (new_vtx_id :> FALSE) @@ g.explored])

\* a variant of _add_edge that records the edge in the edge list before the
\* endpoints have accepted it
UndirectedGraph__add_edge_list_first(g, new_edge) ==
    LET g0 == [g EXCEPT !.edge_list = Append(@, new_edge)]
        r1 == U_Vertex_add_edge(g0, new_edge.end1, new_edge)
        r2 == U_Vertex_add_edge(r1.g, new_edge.end2, new_edge)
    IN  IF r1.err # OK THEN r1 ELSE r2

\* UndirectedGraph._add_edge: end1, then end2, then the edge list
UndirectedGraph__add_edge(g, new_edge) ==
    LET r1 == U_Vertex_add_edge(g, new_edge.end1, new_edge)
        r2 == U_Vertex_add_edge(r1.g, new_edge.end2, new_edge)
    IN  IF r1.err # OK THEN r1
        ELSE IF r2.err # OK THEN r2
        ELSE Done([r2.g EXCEPT !.edge_list = Append(@, new_edge)])

\* UndirectedGraph.add_edge
UndirectedGraph_add_edge(g, end1_id, end2_id, cost) ==
    IF ~U_find_vtx(g, end1_id) \/ ~U_find_vtx(g, end2_id)
    THEN Raised(g, IllegalArgumentError)
    ELSE IF end1_id = end2_id
    THEN Raised(g, IllegalArgumentError)
    ELSE UndirectedGraph__add_edge(g, UndirectedEdge(end1_id, end2_id, cost))

\* UndirectedGraph._remove_edge: end1, then end2, then the edge list
UndirectedGraph__remove_edge(g, edge_to_remove) ==
    LET r1 == U_Vertex_remove_edge(g, edge_to_remove.end1, edge_to_remove)
        r2 == U_Vertex_remove_edge(r1.g, edge_to_remove.end2, edge_to_remove)
    IN  IF r1.err # OK THEN r1
        ELSE IF r2.err # OK THEN r2
        ELSE IF edge_to_remove \notin Range(r2.g.edge_list)
        THEN Raised(r2.g, "ValueError")
        ELSE Done([r2.g EXCEPT !.edge_list = ListRemove(@, edge_to_remove)])

\* UndirectedGraph.remove_edge
UndirectedGraph_remove_edge(g, end1_id, end2_id) ==
    IF ~U_find_vtx(g, end1_id) \/ ~U_find_vtx(g, end2_id)
    THEN Raised(g, IllegalArgumentError)
    ELSE LET found == U_get_edge_with_neighbor(g, end1_id, end2_id)
         IN  IF found = {}
             THEN Raised(g, IllegalArgumentError)
             ELSE UndirectedGraph__remove_edge(
                      g, g.edges[end1_id][CHOOSE i \in found : \A j \in found : i <= j])

\* UndirectedGraph._remove_vtx: removes the edges of the vertex one by one
\* (edges_to_remove is the vertex's own list, which shrinks), then the vertex
RECURSIVE UndirectedGraph__remove_vtx(_, _)
UndirectedGraph__remove_vtx(g, vtx_to_remove) ==
    IF Len(g.edges[vtx_to_remove]) # 0
    THEN LET r == UndirectedGraph__remove_edge(g, g.edges[vtx_to_remove][1])
         IN  IF r.err # OK THEN r
             ELSE UndirectedGraph__remove_vtx(r.g, vtx_to_remove)
    ELSE Done([vtx_list |-> ListRemove(g.vtx_list, vtx_to_remove),
               edge_list |-> g.edge_list,
               edges |-> Without(g.edges, vtx_to_remove),
               neighbors |-> Without(g.neighbors, vtx_to_remove),
               explored |-> Without(g.explored, vtx_to_remove)])

\* AbstractGraph.remove_vtx
UndirectedGraph_remove_vtx(g, vtx_id) ==
    IF ~U_find_vtx(g, vtx_id)
    THEN Raised(g, IllegalArgumentError)
    ELSE UndirectedGraph__remove_vtx(g, vtx_id)

----------------------------------------------------------------------------
(* Directed graph: construction and mutation *)

\* DirectedGraph(): no vertex, no edge
DirectedGraph_init ==
    [vtx_list |-> <<>>, edge_list |-> <<>>,
     emissive_edges |-> <<>>, emissive_neighbors |-> <<>>,
     incident_edges |-> <<>>, incident_neighbors |-> <<>>]

DirectedEdge(tail, head, length) == [tail |-> tail, head |-> head, length |-> length]

\* AbstractGraph._find_vtx: the vertex with the given id, or None
D_find_vtx(g, vtx_id) == vtx_id \in Range(g.vtx_list)

\* Vertex.get_emissive_edge_with_head: the emissive edges of v whose head is head
D_get_emissive_edge_with_head(g, v, head) ==
    {i \in DOMAIN g.emissive_edges[v] : g.emissive_edges[v][i].head = head}

\* Vertex.add_emissive_edge
Vertex_add_emissive_edge(g, v, new_emissive_edge) ==
    IF new_emissive_edge.tail # v
    THEN Raised(g, IllegalArgumentError)
    ELSE IF new_emissive_edge.head \in g.emissive_neighbors[v]
    THEN Raised(g, IllegalArgumentError)
    ELSE Done([g EXCEPT !.emissive_edges[v] = Append(@, new_emissive_edge),
                        !.emissive_neighbors[v] = @ \cup {new_emissive_edge.head}])

\* Vertex.add_incident_edge
Vertex_add_incident_edge(g, v, new_incident_edge) ==
    IF new_incident_edge.head # v
    THEN Raised(g, IllegalArgumentError)
    ELSE IF new_incident_edge.tail \in g.incident_neighbors[v]
    THEN Raised(g, IllegalArgumentError)
    ELSE Done([g EXCEPT !.incident_edges[v] = Append(@, new_incident_edge),
                        !.incident_neighbors[v] = @ \cup {new_incident_edge.tail}])

\* Vertex.remove_emissive_edge
Vertex_remove_emissive_edge(g, v, emissive_edge_to_remove) ==
    IF emissive_edge_to_remove.tail # v
    THEN Raised(g, IllegalArgumentError)
    ELSE IF emissive_edge_to_remove.head \notin g.emissive_neighbors[v]
    THEN Raised(g, IllegalArgumentError)
    ELSE IF emissive_edge_to_remove \notin Range(g.emissive_edges[v])
    THEN Raised(g, "ValueError")
    ELSE Done([g EXCEPT !.emissive_edges[v] = ListRemove(@, emissive_edge_to_remove),
                        !.emissive_neighbors[v] = @ \ {emissive_edge_to_remove.head}])

\* Vertex.remove_incident_edge
Vertex_remove_incident_edge(g, v, incident_edge_to_remove) ==
    IF incident_edge_to_remove.head # v
    THEN Raised(g, IllegalArgumentError)
    ELSE IF incident_edge_to_remove.tail \notin g.incident_neighbors[v]
    THEN Raised(g, IllegalArgumentError)
    ELSE IF incident_edge_to_remove \notin Range(g.incident_edges[v])
    THEN Raised(g, "ValueError")
    ELSE Done([g EXCEPT !.incident_edges[v] = ListRemove(@, incident_edge_to_remove),
                        !.incident_neighbors[v] = @ \ {incident_edge_to_remove.tail}])

\* DirectedGraph.add_vtx
DirectedGraph_add_vtx(g, new_vtx_id) ==
    IF D_find_vtx(g, new_vtx_id)
    THEN Raised(g, IllegalArgumentError)
    ELSE Done([vtx_list |-> Append(g.vtx_list, new_vtx_id),
               edge_list |-> g.edge_list,
               emissive_edges |-> (new_vtx_id :> <<>>) @@ g.emissive_edges,
               emissive_neighbors |-> (new_vtx_id :> {}) @@ g.emissive_neighbors,
               incident_edges |-> (new_vtx_id :> <<>>) @@ g.incident_edges,
               incident_neighbors |-> (new_vtx_id :> {}) @@ g.incident_neighbors])

\* DirectedGraph._add_edge: the tail, then the head, then the edge list
DirectedGraph__add_edge(g, new_edge) ==
    LET r1 == Vertex_add_emissive_edge(g, new_edge.tail, new_edge)
        r2 == Vertex_add_incident_edge(r1.g, new_edge.head, new_edge)
    IN  IF r1.err # OK THEN r1
        ELSE IF r2.err # OK THEN r2
        ELSE Done([r2.g EXCEPT !.edge_list = Append(@, new_edge)])

\* DirectedGraph.add_edge
DirectedGraph_add_edge(g, tail_id, head_id, length) ==
    IF ~D_find_vtx(g, tail_id) \/ ~D_find_vtx(g, head_id)
    THEN Raised(g, IllegalArgumentError)
    ELSE IF tail_id = head_id
    THEN Raised(g, IllegalArgumentError)
    ELSE DirectedGraph__add_edge(g, DirectedEdge(tail_id, head_id, length))

\* a variant of _remove_edge that leaves the edge in the graph's edge list
DirectedGraph__remove_edge_keep_listed(g, edge_to_remove) ==
    LET r1 == Vertex_remove_emissive_edge(g, edge_to_remove.tail, edge_to_remove)
        r2 == Vertex_remove_incident_edge(r1.g, edge_to_remove.head, edge_to_remove)
    IN  IF r1.err # OK THEN r1 ELSE r2

\* DirectedGraph._remove_edge: the tail, then the head, then the edge list
DirectedGraph__remove_edge(g, edge_to_remove) ==
    LET r1 == Vertex_remove_emissive_edge(g, edge_to_remove.tail, edge_to_remove)
        r2 == Vertex_remove_incident_edge(r1.g, edge_to_remove.head, edge_to_remove)
    IN  IF r1.err # OK THEN r1
        ELSE IF r2.err # OK THEN r2
        ELSE IF edge_to_remove \notin Range(r2.g.edge_list)
        THEN Raised(r2.g, "ValueError")
        ELSE Done([r2.g EXCEPT !.edge_list = ListRemove(@, edge_to_remove)])

\* DirectedGraph.remove_edge
DirectedGraph_remove_edge(g, tail_id, head_id) ==
    IF ~D_find_vtx(g, tail_id) \/ ~D_find_vtx(g, head_id)
    THEN Raised(g, IllegalArgumentError)
    ELSE LET found == D_get_emissive_edge_with_head(g, tail_id, head_id)
         IN  IF found = {}
             THEN Raised(g, IllegalArgumentError)
             ELSE DirectedGraph__remove_edge(
                      g, g.emissive_edges[tail_id][CHOOSE i \in found : \A j \in found : i <= j])

\* the while loop of DirectedGraph._remove_vtx: edges_to_remove is a list of
\* its own (a copy of the emissive edges followed by the incident edges) and
\* the loop never takes an element off it
RECURSIVE D_remove_vtx_loop(_, _)
D_remove_vtx_loop(g, edges_to_remove) ==
    IF Len(edges_to_remove) # 0
    THEN LET r == DirectedGraph__remove_edge(g, edges_to_remove[1])
         IN  IF r.err # OK THEN r
             ELSE D_remove_vtx_loop(r.g, edges_to_remove)
    ELSE Done(g)

\* DirectedGraph._remove_vtx
DirectedGraph__remove_vtx(g, vtx_to_remove) ==
    LET r == D_remove_vtx_loop(
                 g, g.emissive_edges[vtx_to_remove] \o g.incident_edges[vtx_to_remove])
    IN  IF r.err # OK THEN r
        ELSE Done([vtx_list |-> ListRemove(r.g.vtx_list, vtx_to_remove),
                   edge_list |-> r.g.edge_list,
                   emissive_edges |-> Without(r.g.emissive_edges, vtx_to_remove),
                   emissive_neighbors |-> Without(r.g.emissive_neighbors, vtx_to_remove),
                   incident_edges |-> Without(r.g.incident_edges, vtx_to_remove),
                   incident_neighbors |-> Without(r.g.incident_neighbors, vtx_to_remove)])

\* AbstractGraph.remove_vtx
DirectedGraph_remove_vtx(g, vtx_id) ==
    IF ~D_find_vtx(g, vtx_id)
    THEN Raised(g, IllegalArgumentError)
    ELSE DirectedGraph__remove_vtx(g, vtx_id)

----------------------------------------------------------------------------
(* Undirected graph: the minimum spanning tree algorithms *)

RECURSIVE SumCost(_)
\* sum(map(lambda x: x.cost, curr_spanning_tree))
SumCost(tree) ==
    IF tree = <<>> THEN 0 ELSE tree[1].cost + SumCost(Tail(tree))

\* UndirectedEdge.__lt__
Edge_lt(e, other) == e.cost < other.cost

RECURSIVE InsertSorted(_, _)
\* puts e behind every element that is not greater than it
InsertSorted(s, e) ==
    IF s = <<>> THEN <<e>>
    ELSE IF Edge_lt(e, s[1]) THEN <<e>> \o s
    ELSE <<s[1]>> \o InsertSorted(Tail(s), e)

\* a variant of sorted that leaves the list in the order it has
unsorted(s) == s

RECURSIVE sorted(_)
\* sorted(self._edge_list): ascending by cost, equal costs in list order
sorted(s) ==
    IF s = <<>> THEN <<>>
    ELSE InsertSorted(sorted(SubSeq(s, 1, Len(s) - 1)), s[Len(s)])

(* heapq on a Python list; position p of the list is element p + 1 here *)

RECURSIVE heapq_siftdown(_, _, _, _)
\* heapq._siftdown(heap, startpos, pos), newitem being carried to its place
heapq_siftdown(heap, startpos, pos, newitem) ==
    IF pos > startpos /\ Edge_lt(newitem, heap[((pos - 1) \div 2) + 1])
    THEN heapq_siftdown([heap EXCEPT ![pos + 1] = heap[((pos - 1) \div 2) + 1]],
                        startpos, (pos - 1) \div 2, newitem)
    ELSE [heap EXCEPT ![pos + 1] = newitem]

RECURSIVE heapq_siftup_loop(_, _, _)
\* the while loop of heapq._siftup: bubbles the smaller child up until a leaf
heapq_siftup_loop(heap, pos, newitem) ==
    LET endpos == Len(heap)
        childpos == 2 * pos + 1
        rightpos == childpos + 1
        pick == IF rightpos < endpos /\ ~Edge_lt(heap[childpos + 1], heap[rightpos + 1])
                THEN rightpos ELSE childpos
    IN  IF childpos < endpos
        THEN heapq_siftup_loop([heap EXCEPT ![pos + 1] = heap[pick + 1]], pick, newitem)
        ELSE [heap |-> heap, pos |-> pos]

\* heapq._siftup(heap, 0)
heapq_siftup(heap) ==
    LET r == heapq_siftup_loop(heap, 0, heap[1])
    IN  heapq_siftdown(r.heap, 0, r.pos, heap[1])

\* heapq.heappush(heap, item)
heappush(heap, item) ==
    heapq_siftdown(Append(heap, item), 0, Len(heap), item)

\* heapq.heappop(heap) on a non-empty heap: the item and the heap left
heappop(heap) ==
    LET lastelt == heap[Len(heap)]
        rest == SubSeq(heap, 1, Len(heap) - 1)
    IN  IF rest # <<>>
        THEN [item |-> rest[1], heap |-> heapq_siftup([rest EXCEPT ![1] = lastelt])]
        ELSE [item |-> lastelt, heap |-> rest]

RECURSIVE PushAll(_, _)
\* for edge in src_vtx.edges: heapq.heappush(crossing_edges, edge)
PushAll(heap, es) ==
    IF es = <<>> THEN heap ELSE PushAll(heappush(heap, es[1]), Tail(es))

RECURSIVE prim_push_crossing(_, _, _, _)
\* the update of the crossing edges with w's edges
prim_push_crossing(heap, w, w_edges, spanned) ==
    IF w_edges = <<>> THEN heap
    ELSE LET w_edge == w_edges[1]
             neighbor == IF w_edge.end1 = w THEN w_edge.end2 ELSE w_edge.end1
         IN  prim_push_crossing(
                 IF neighbor \notin spanned THEN heappush(heap, w_edge) ELSE heap,
                 w, Tail(w_edges), spanned)

RECURSIVE prim_loop(_, _, _, _, _)
\* the while loop of prim_mst_straightforward; pushed counts the heappush
\* calls made so far
prim_loop(g, spanned, curr_spanning_tree, crossing_edges, pushed) ==
    IF Cardinality(spanned) < Len(g.vtx_list)
    THEN IF crossing_edges = <<>>
         THEN [out |-> "IndexError", value |-> <<>>,
               tree |-> curr_spanning_tree, spanned |-> spanned, pushed |-> pushed]
         ELSE LET p == heappop(crossing_edges)
                  cheapest_crossing_edge == p.item
                  w == IF cheapest_crossing_edge.end1 \in spanned
                       THEN cheapest_crossing_edge.end2
                       ELSE cheapest_crossing_edge.end1
                  spanned2 == spanned \cup {w}
                  updated == prim_push_crossing(p.heap, w, g.edges[w], spanned2)
              IN  prim_loop(g, spanned2,
                            Append(curr_spanning_tree, cheapest_crossing_edge),
                            updated, pushed + Len(updated) - Len(p.heap))
    ELSE [out |-> OK, value |-> SumCost(curr_spanning_tree),
          tree |-> curr_spanning_tree, spanned |-> spanned, pushed |-> pushed]

\* UndirectedGraph.prim_mst_straightforward, src_index being the value
\* random.randint(0, len(self._vtx_list) - 1) returns
prim_mst_straightforward(g, src_index) ==
    LET src_vtx == g.vtx_list[src_index + 1]
    IN  prim_loop(g, {src_vtx}, <<>>, PushAll(<<>>, g.edges[src_vtx]),
                  Len(g.edges[src_vtx]))

(* Kruskal with a reachability search *)

\* UndirectedGraph._add_neighbor
U_add_neighbor(connections, v, neighbor) ==
    IF v \in DOMAIN connections
    THEN [connections EXCEPT ![v] = Append(@, neighbor)]
    ELSE (v :> <<neighbor>>) @@ connections

RECURSIVE U_construct_connections(_)
\* UndirectedGraph._construct_connections
U_construct_connections(edges) ==
    IF edges = <<>> THEN <<>>
    ELSE LET e == edges[Len(edges)]
             c == U_construct_connections(SubSeq(edges, 1, Len(edges) - 1))
         IN  U_add_neighbor(U_add_neighbor(c, e.end1, e.end2), e.end2, e.end1)

RECURSIVE U_dfs_and_check_path_helper(_, _, _, _)
RECURSIVE U_dfs_neighbors(_, _, _, _, _)
\* the for loop of _dfs_and_check_path_helper from the i-th neighbor on
U_dfs_neighbors(connections, curr, target, explored, i) ==
    IF i > Len(connections[curr]) THEN [found |-> FALSE, explored |-> explored]
    ELSE LET neighbor == connections[curr][i]
         IN  IF neighbor = target THEN [found |-> TRUE, explored |-> explored]
             ELSE IF ~explored[neighbor]
             THEN LET r == U_dfs_and_check_path_helper(connections, neighbor, target, explored)
                  IN  IF r.found THEN r
                      ELSE U_dfs_neighbors(connections, curr, target, r.explored, i + 1)
             ELSE U_dfs_neighbors(connections, curr, target, explored, i + 1)

\* UndirectedGraph._dfs_and_check_path_helper; explored are the vertices' flags
U_dfs_and_check_path_helper(connections, curr, target, explored) ==
    U_dfs_neighbors(connections, curr, target, [explored EXCEPT ![curr] = TRUE], 1)

\* UndirectedGraph._dfs_and_check_path
U_dfs_and_check_path(spanning_tree, v, w, explored) ==
    LET connections == U_construct_connections(spanning_tree)
    IN  IF v \notin DOMAIN connections \/ w \notin DOMAIN connections
        THEN [found |-> FALSE, explored |-> explored]
        ELSE U_dfs_and_check_path_helper(connections, v, w, explored)

RECURSIVE kruskal_straightforward_loop(_, _, _)
\* the for loop of kruskal_mst_straightforward over the sorted edges
kruskal_straightforward_loop(edges, curr_spanning_tree, explored) ==
    IF edges = <<>>
    THEN [out |-> OK, value |-> SumCost(curr_spanning_tree),
          tree |-> curr_spanning_tree, explored |-> explored]
    ELSE LET edge == edges[1]
             r == U_dfs_and_check_path(curr_spanning_tree, edge.end1, edge.end2, explored)
         IN  kruskal_straightforward_loop(
                 Tail(edges),
                 IF ~r.found THEN Append(curr_spanning_tree, edge) ELSE curr_spanning_tree,
                 r.explored)

\* UndirectedGraph.kruskal_mst_straightforward
kruskal_mst_straightforward(g) ==
    kruskal_straightforward_loop(sorted(g.edge_list), <<>>, g.explored)

(* Union-find over the vertices *)

\* UnionFind(objs): every object its own leader, in a group of size 1
UnionFind_init(objs) ==
    [leader |-> [v \in Range(objs) |-> v],
     size |-> [v \in Range(objs) |-> 1],
     groups |-> Cardinality(Range(objs))]

\* UnionFind.union on two group names: the leader of the smaller group and
\* every member of that group are re-parented to the leader of the larger one
UnionFind_union(uf, name_a, name_b) ==
    LET la == uf.leader[name_a]
        lb == uf.leader[name_b]
        larger == IF uf.size[la] >= uf.size[lb] THEN la ELSE lb
        smaller == IF larger = la THEN lb ELSE la
    IN  IF la = lb THEN uf
        ELSE [leader |-> [v \in DOMAIN uf.leader |->
                             IF uf.leader[v] = smaller THEN larger ELSE uf.leader[v]],
              size |-> [uf.size EXCEPT ![larger] = uf.size[larger] + uf.size[smaller]],
              groups |-> uf.groups - 1]

\* UnionFind.num_of_groups
UnionFind_num_of_groups(uf) == uf.groups

\* a variant of the cycle test of kruskal_mst_improved that compares the
\* endpoints themselves instead of their leaders
kruskal_same_component_by_id(uf, edge) == edge.end1 = edge.end2

\* the cycle test of kruskal_mst_improved: edge.end1.leader is edge.end2.leader
kruskal_same_component(uf, edge) == uf.leader[edge.end1] = uf.leader[edge.end2]

RECURSIVE kruskal_improved_loop(_, _, _)
\* the for loop of kruskal_mst_improved over the sorted edges
kruskal_improved_loop(edges, curr_spanning_tree, union_find) ==
    IF edges = <<>>
    THEN [out |-> OK, value |-> SumCost(curr_spanning_tree),
          tree |-> curr_spanning_tree]
    ELSE LET edge == edges[1]
         IN  IF ~kruskal_same_component(union_find, edge)
             THEN kruskal_improved_loop(
                      Tail(edges), Append(curr_spanning_tree, edge),
                      UnionFind_union(union_find, union_find.leader[edge.end1],
                                      union_find.leader[edge.end2]))
             ELSE kruskal_improved_loop(Tail(edges), curr_spanning_tree, union_find)

\* UndirectedGraph.kruskal_mst_improved
kruskal_mst_improved(g) ==
    kruskal_improved_loop(sorted(g.edge_list), <<>>, UnionFind_init(g.vtx_list))

\* a variant of the stop test of clustering_with_max_spacing that stops one
\* merge late
clustering_reached_late(union_find, k) == UnionFind_num_of_groups(union_find) = k - 1

\* the stop test of clustering_with_max_spacing: union_find.num_of_groups() == k
clustering_reached(union_find, k) == UnionFind_num_of_groups(union_find) = k

\* what a call of clustering_with_max_spacing hands back: the value, the
\* edges it merged along, the leader of every vertex at that moment, and
\* the return statement it left by ("loop": return edge.cost, "end": the
\* trailing return 0.0)
clustering_return(value, merged, union_find, at) ==
    [out |-> OK, value |-> value, tree |-> merged,
     clusters |-> union_find.leader, at |-> at]

RECURSIVE clustering_loop(_, _, _, _, _)
\* the for loop of clustering_with_max_spacing over the sorted edges
clustering_loop(edges, k, merged, union_find, stopped) ==
    IF edges = <<>>
    THEN clustering_return(0, merged, union_find, "end")
    ELSE LET edge == edges[1]
         IN  IF ~kruskal_same_component(union_find, edge)
             THEN IF stopped
                  THEN clustering_return(edge.cost, merged, union_find, "loop")
                  ELSE LET uf == UnionFind_union(union_find,
                                                 union_find.leader[edge.end1],
                                                 union_find.leader[edge.end2])
                       IN  clustering_loop(Tail(edges), k, Append(merged, edge), uf,
                                           clustering_reached(uf, k))
             ELSE clustering_loop(Tail(edges), k, merged, union_find, stopped)

\* UndirectedGraph.clustering_with_max_spacing
clustering_with_max_spacing(g, k) ==
    IF k <= 1
    THEN [out |-> IllegalArgumentError, value |-> <<>>, tree |-> <<>>,
          clusters |-> <<>>, at |-> "raise"]
    ELSE clustering_loop(sorted(g.edge_list), k, <<>>, UnionFind_init(g.vtx_list), FALSE)

----------------------------------------------------------------------------
(* The record of the last call: its name, its arguments and how it ended *)

(* (value: what it returned; tree: the edges an MST call accepted; fresh:    *)
(* whether no vertex was marked explored when the call began)               *)

NoCall == [op |-> "none", out |-> OK, value |-> <<>>, tree |-> <<>>, fresh |-> TRUE]
Call(op, out) == [op |-> op, out |-> out, value |-> <<>>, tree |-> <<>>, fresh |-> TRUE]

----------------------------------------------------------------------------
(* Mutation calls on one graph instance.  The two graph objects are         *)
(* independent, so a run exercises one of them.                             *)

Init ==
    /\ ug = UndirectedGraph_init
    /\ dg = DirectedGraph_init
    /\ res = NoCall

U_add_vtx ==
    \E id \in Ids :
        LET r == UndirectedGraph_add_vtx(ug, id)
        IN  /\ dg = DirectedGraph_init
            /\ ug' = r.g
            /\ res' = Call("U.add_vtx", r.err)
            /\ UNCHANGED dg

U_add_edge ==
    \E a \in Ids, b \in Ids, c \in Weights :
        LET r == UndirectedGraph_add_edge(ug, a, b, c)
        IN  /\ dg = DirectedGraph_init
            /\ (Len(ug.edge_list) < MaxEdges \/ r.err # OK)
            /\ ug' = r.g
            /\ res' = Call("U.add_edge", r.err)
            /\ UNCHANGED dg

U_remove_edge ==
    \E a \in Ids, b \in Ids :
        LET r == UndirectedGraph_remove_edge(ug, a, b)
        IN  /\ dg = DirectedGraph_init
            /\ ug' = r.g
            /\ res' = Call("U.remove_edge", r.err)
            /\ UNCHANGED dg

U_remove_vtx ==
    \E id \in Ids :
        LET r == UndirectedGraph_remove_vtx(ug, id)
        IN  /\ dg = DirectedGraph_init
            /\ ug' = r.g
            /\ res' = Call("U.remove_vtx", r.err)
            /\ UNCHANGED dg

D_add_vtx ==
    \E id \in Ids :
        LET r == DirectedGraph_add_vtx(dg, id)
        IN  /\ ug = UndirectedGraph_init
            /\ dg' = r.g
            /\ res' = Call("D.add_vtx", r.err)
            /\ UNCHANGED ug

D_add_edge ==
    \E a \in Ids, b \in Ids, c \in Weights :
        LET r == DirectedGraph_add_edge(dg, a, b, c)
        IN  /\ ug = UndirectedGraph_init
            /\ (Len(dg.edge_list) < MaxEdges \/ r.err # OK)
            /\ dg' = r.g
            /\ res' = Call("D.add_edge", r.err)
            /\ UNCHANGED ug

D_remove_edge ==
    \E a \in Ids, b \in Ids :
        LET r == DirectedGraph_remove_edge(dg, a, b)
        IN  /\ ug = UndirectedGraph_init
            /\ dg' = r.g
            /\ res' = Call("D.remove_edge", r.err)
            /\ UNCHANGED ug

D_remove_vtx ==
    \E id \in Ids :
        LET r == DirectedGraph_remove_vtx(dg, id)
        IN  /\ ug = UndirectedGraph_init
            /\ dg' = r.g
            /\ res' = Call("D.remove_vtx", r.err)
            /\ UNCHANGED ug

Next ==
    \/ U_add_vtx
    \/ U_add_edge
    \/ U_remove_edge
    \/ U_remove_vtx
    \/ D_add_vtx
    \/ D_add_edge
    \/ D_remove_edge
    \/ D_remove_vtx

Spec == Init /\ [][Next]_vars

----------------------------------------------------------------------------
(* The undirected graphs the algorithms are run on: built by add_vtx for   *)
(* the ids 0..n-1 and then by add_edge for a list of distinct pairs         *)

\* at most MaxVtx vertices
MaxVtx == 3
\* at most MaxGraphEdges edges
MaxGraphEdges == 3
\* the costs of the drawn edges (the named graphs below use costs up to 4)
Costs == {1, 2}

RECURSIVE U_add_vertices(_, _)
\* add_vtx(0), ..., add_vtx(n - 1)
U_add_vertices(g, n) ==
    IF n = 0 THEN g
    ELSE UndirectedGraph_add_vtx(U_add_vertices(g, n - 1), n - 1).g

RECURSIVE U_add_edges(_, _)
\* add_edge(a, b, c) for every <<a, b, c>> of es, in order
U_add_edges(g, es) ==
    IF es = <<>> THEN g
    ELSE LET e == es[Len(es)]
         IN  UndirectedGraph_add_edge(
                 U_add_edges(g, SubSeq(es, 1, Len(es) - 1)), e[1], e[2], e[3]).g

U_Build(n, es) == U_add_edges(U_add_vertices(UndirectedGraph_init, n), es)

\* whether the list of add_edge calls es joins a and b
U_Joins(es, a, b) == \E i \in DOMAIN es : es[i][1] = a /\ es[i][2] = b

RECURSIVE U_EdgeLists(_, _)
\* the lists of at most k add_edge calls on distinct pairs a < b < n
U_EdgeLists(n, k) ==
    IF k = 0 THEN {<<>>}
    ELSE LET shorter == U_EdgeLists(n, k - 1)
         IN  shorter \cup
             UNION {{Append(es, <<a, b, c>>) :
                        c \in Costs,
                        a \in {x \in 0..(n - 1) : x < b /\ ~U_Joins(es, x, b)}} :
                    es \in {x \in shorter : Len(x) = k - 1}, b \in 0..(n - 1)}

\* the example of the specification's testable properties
ExampleEdges ==
    << <<0, 1, 1>>, <<1, 2, 2>>, <<2, 3, 1>>, <<0, 3, 4>>, <<0, 2, 3>> >>
ExampleGraph == U_Build(4, ExampleEdges)

\* a triangle 0-1-2 with a pendant vertex 3, costs all different
TriangleWithPendantEdges ==
    << <<0, 1, 1>>, <<0, 2, 2>>, <<1, 2, 3>>, <<1, 3, 4>> >>
TriangleWithPendantGraph == U_Build(4, TriangleWithPendantEdges)

\* the graph as add_vtx / add_edge built it: no vertex marked explored
U_Fresh(g) == \A v \in DOMAIN g.explored : ~g.explored[v]

Result(op, r, g) ==
    [op |-> op, out |-> r.out, value |-> r.value, tree |-> r.tree, fresh |-> U_Fresh(g)]

\* a graph of the bounded family, or one of the two named graphs
InitMST ==
    /\ \/ \E n \in 0..MaxVtx : \E es \in U_EdgeLists(n, MaxGraphEdges) :
              ug = U_Build(n, es)
       \/ ug \in {ExampleGraph, TriangleWithPendantGraph}
    /\ dg = DirectedGraph_init
    /\ res = NoCall

\* a call of prim_mst_straightforward; random.randint(0, -1) raises
\* ValueError on a graph without vertices
Prim ==
    /\ IF ug.vtx_list = <<>>
       THEN res' = Call("prim_mst_straightforward", "ValueError")
       ELSE \E src_index \in 0..(Len(ug.vtx_list) - 1) :
               res' = Result("prim_mst_straightforward",
                             prim_mst_straightforward(ug, src_index), ug)
    /\ UNCHANGED <<ug, dg>>

\* a call of kruskal_mst_straightforward; the explored flags it sets stay
\* on the vertices
KruskalStraightforward ==
    LET r == kruskal_mst_straightforward(ug)
    IN  /\ res' = Result("kruskal_mst_straightforward", r, ug)
        /\ ug' = [ug EXCEPT !.explored = r.explored]
        /\ UNCHANGED dg

\* a call of kruskal_mst_improved
KruskalImproved ==
    /\ res' = Result("kruskal_mst_improved", kruskal_mst_improved(ug), ug)
    /\ UNCHANGED <<ug, dg>>

\* the largest number of clusters asked for
MaxClusters == 4

\* a call of clustering_with_max_spacing(k)
Clustering ==
    /\ \E k \in 0..MaxClusters :
           LET r == clustering_with_max_spacing(ug, k)
           IN  res' = [op |-> "clustering_with_max_spacing", arg |-> k,
                       out |-> r.out, value |-> r.value, tree |-> r.tree,
                       clusters |-> r.clusters, at |-> r.at, fresh |-> U_Fresh(ug)]
    /\ UNCHANGED <<ug, dg>>

NextMST ==
    \/ Prim
    \/ KruskalStraightforward
    \/ KruskalImproved
    \/ Clustering

SpecMST == InitMST /\ [][NextMST]_vars

----------------------------------------------------------------------------
(* Calls of prim_mst_straightforward with the start vertex and the heap     *)
(* traffic on record                                                         *)

\* a vertex 0 joined to the vertices 2, 3, 4 (cost 1) and to 1 (cost 2), the
\* vertices 2, 3, 4 joined to 1 (cost 3), and 1 joined to the pendant
\* vertices 5, 6, 7, 8 (cost 10)
FanEdges ==
    << <<0, 2, 1>>, <<0, 3, 1>>, <<0, 4, 1>>, <<0, 1, 2>>,
       <<2, 1, 3>>, <<3, 1, 3>>, <<4, 1, 3>>,
       <<1, 5, 10>>, <<1, 6, 10>>, <<1, 7, 10>>, <<1, 8, 10>> >>
FanGraph == U_Build(9, FanEdges)

\* a graph of the bounded family, or one of the three named graphs
InitPrim ==
    /\ \/ \E n \in 0..MaxVtx : \E es \in U_EdgeLists(n, MaxGraphEdges) :
              ug = U_Build(n, es)
       \/ ug \in {ExampleGraph, TriangleWithPendantGraph, FanGraph}
    /\ dg = DirectedGraph_init
    /\ res = NoCall

\* a call of prim_mst_straightforward in which random.randint returns
\* src_index; random.randint(0, -1) raises ValueError on a graph without
\* vertices
PrimFrom ==
    /\ res.op = "none"
    /\ IF ug.vtx_list = <<>>
       THEN res' = Call("prim_mst_straightforward", "ValueError")
       ELSE \E src_index \in 0..(Len(ug.vtx_list) - 1) :
               LET r == prim_mst_straightforward(ug, src_index)
               IN  res' = [op |-> "prim_mst_straightforward", start |-> src_index,
                           out |-> r.out, value |-> r.value, tree |-> r.tree,
                           spanned |-> r.spanned, pushed |-> r.pushed,
                           fresh |-> U_Fresh(ug)]
    /\ UNCHANGED <<ug, dg>>

NextPrim == PrimFrom

SpecPrim == InitPrim /\ [][NextPrim]_vars

----------------------------------------------------------------------------
(* Claims about the mutation calls (checked under Spec) *)

U_connected(g, a, b) ==
    \E i \in DOMAIN g.edge_list :
        \/ g.edge_list[i].end1 = a /\ g.edge_list[i].end2 = b
        \/ g.edge_list[i].end1 = b /\ g.edge_list[i].end2 = a

D_connected(g, a, b) ==
    \E i \in DOMAIN g.edge_list :
        g.edge_list[i].tail = a /\ g.edge_list[i].head = b

Fails(r, g) == r.err = IllegalArgumentError /\ r.g = g
OkOrFails(r, g) == r.err = OK \/ Fails(r, g)

\* C10: in both graph types, from every reachable graph, add_edge with a
\* missing endpoint, with equal endpoint ids or between already connected
\* endpoints, add_vtx with an existing id and remove_edge of a non-existent
\* edge raise IllegalArgumentError, and every such failing call leaves the
\* vertex list, the edge list and every vertex's edge lists and neighbor-id
\* sets as they were.
C10_FailingMutationLeavesGraphUnchanged ==
    /\ \A a \in Ids, b \in Ids, c \in Weights :
        LET u == UndirectedGraph_add_edge(ug, a, b, c)
            d == DirectedGraph_add_edge(dg, a, b, c)
        IN  /\ OkOrFails(u, ug)
            /\ (~U_find_vtx(ug, a) \/ ~U_find_vtx(ug, b) \/ a = b \/ U_connected(ug, a, b))
                  => Fails(u, ug)
            /\ OkOrFails(d, dg)
            /\ (~D_find_vtx(dg, a) \/ ~D_find_vtx(dg, b) \/ a = b \/ D_connected(dg, a, b))
                  => Fails(d, dg)
    /\ \A a \in Ids :
        LET u == UndirectedGraph_add_vtx(ug, a)
            d == DirectedGraph_add_vtx(dg, a)
        IN  /\ OkOrFails(u, ug)
            /\ U_find_vtx(ug, a) => Fails(u, ug)
            /\ OkOrFails(d, dg)
            /\ D_find_vtx(dg, a) => Fails(d, dg)
    /\ \A a \in Ids, b \in Ids :
        LET u == UndirectedGraph_remove_edge(ug, a, b)
            d == DirectedGraph_remove_edge(dg, a, b)
        IN  /\ OkOrFails(u, ug)
            /\ ~U_connected(ug, a, b) => Fails(u, ug)
            /\ OkOrFails(d, dg)
            /\ ~D_connected(dg, a, b) => Fails(d, dg)

\* a duplicate add_edge has just been refused on an undirected graph that
\* holds the edge
C10_Witness ==
    /\ res.op = "U.add_edge"
    /\ res.out = IllegalArgumentError
    /\ Len(ug.edge_list) = 1
    /\ Len(ug.vtx_list) = 2

----------------------------------------------------------------------------
(* Claims about the minimum spanning tree algorithms (checked under SpecMST) *)

RECURSIVE U_Reach(_, _)
\* the vertices joined to a vertex of S by edges of the set E
U_Reach(E, S) ==
    LET nxt == S \cup {e.end2 : e \in {x \in E : x.end1 \in S}}
                 \cup {e.end1 : e \in {x \in E : x.end2 \in S}}
    IN  IF nxt = S THEN S ELSE U_Reach(E, nxt)

U_Components(V, E) == {U_Reach(E, {v}) : v \in V}

U_IsConnected(g) ==
    /\ g.vtx_list # <<>>
    /\ U_Reach(Range(g.edge_list), {g.vtx_list[1]}) = Range(g.vtx_list)

RECURSIVE SetCost(_)
SetCost(E) ==
    IF E = {} THEN 0
    ELSE LET e == CHOOSE x \in E : TRUE IN e.cost + SetCost(E \ {e})

\* the edge sets that span every connected component of g without a cycle
SpanningForests(g) ==
    LET V == Range(g.vtx_list)
        E == Range(g.edge_list)
    IN  {F \in SUBSET E :
            /\ U_Components(V, F) = U_Components(V, E)
            /\ Cardinality(F) = Cardinality(V) - Cardinality(U_Components(V, E))}

MinSpanningForestCost(g) ==
    LET costs == {SetCost(F) : F \in SpanningForests(g)}
    IN  CHOOSE c \in costs : \A d \in costs : c <= d

PrimStarts(g) == 0..(Len(g.vtx_list) - 1)

MSTCalls ==
    {"prim_mst_straightforward", "kruskal_mst_straightforward", "kruskal_mst_improved"}

\* g with the explored flags as add_vtx left them
AsBuilt(g) == [g EXCEPT !.explored = [v \in DOMAIN g.explored |-> FALSE]]

\* C1: on every connected graph as built by add_vtx / add_edge, a call of
\* prim_mst_straightforward (whatever start vertex it draws), of
\* kruskal_mst_straightforward or of kruskal_mst_improved returns the total
\* cost that each of the three algorithms returns on that graph.
C1_MSTCostsAgree ==
    (res.op \in MSTCalls /\ res.fresh /\ U_IsConnected(ug)) =>
        /\ res.out = OK
        /\ res.value = kruskal_mst_improved(AsBuilt(ug)).value
        /\ res.value = kruskal_mst_straightforward(AsBuilt(ug)).value
        /\ \A i \in PrimStarts(ug) :
              /\ prim_mst_straightforward(AsBuilt(ug), i).out = OK
              /\ res.value = prim_mst_straightforward(AsBuilt(ug), i).value

ExampleMST ==
    {UndirectedEdge(0, 1, 1), UndirectedEdge(1, 2, 2), UndirectedEdge(2, 3, 1)}

\* C2: on the example graph (vertices 0..3, edges (0,1,1), (1,2,2), (2,3,1),
\* (0,3,4), (0,2,3) added in this order) a call of any of the three
\* algorithms returns cost 4, having accepted the edges (0,1), (1,2), (2,3).
C2_ExampleMSTCost ==
    (res.op \in MSTCalls /\ res.fresh /\ AsBuilt(ug) = ExampleGraph) =>
        /\ res.out = OK
        /\ res.value = 4
        /\ Range(res.tree) = ExampleMST

\* the edges of the sorted list before position i that the tree holds
AcceptedBefore(edges, tree, i) ==
    {edges[j] : j \in {k \in 1..(i - 1) : edges[k] \in Range(tree)}}

\* C3: a call of kruskal_mst_improved returns the minimum total cost of a
\* spanning tree (of a spanning forest when the graph is not connected), and
\* it has accepted an edge of the ascending order exactly when the edges
\* accepted before it did not join its two endpoints.
C3_KruskalImprovedMinimum ==
    res.op = "kruskal_mst_improved" =>
        LET edges == sorted(ug.edge_list)
        IN  /\ res.out = OK
            /\ res.value = MinSpanningForestCost(ug)
            /\ \A i \in DOMAIN edges :
                  (edges[i] \in Range(res.tree)) <=>
                      (edges[i].end2 \notin
                          U_Reach(AcceptedBefore(edges, res.tree, i), {edges[i].end1}))

\* kruskal_mst_improved has returned on a connected graph from which it left
\* a cycle-closing edge out
C3_Witness ==
    /\ res.op = "kruskal_mst_improved"
    /\ res.out = OK
    /\ U_IsConnected(ug)
    /\ Len(ug.edge_list) >= Len(ug.vtx_list)
    /\ res.value = MinSpanningForestCost(ug)
    /\ res.value < SumCost(ug.edge_list)

----------------------------------------------------------------------------
(* Directed graph: the Bellman-Ford family *)

\* AbstractGraph._INFINITY: the length of "no path"; adding a length to it
\* leaves it unchanged
INFINITY == 1000000

\* a variant of the path length that counts the edge instead of adding its
\* length
PathLengthInEdges(entry, length) == IF entry = INFINITY THEN INFINITY ELSE entry + 1

\* path_length = <table entry> + edge.length
PathLength(entry, length) == IF entry = INFINITY THEN INFINITY ELSE entry + length

\* the depth at which the interpreter stops a recursion with RecursionError
RecursionLimit == 8

NoSuchVertex == "the vertex doesn't exist"
NegativeCycle == "the graph has negative cycles"
NoVertex == -1

\* how a shortest-path call ends: the exception and its message or the
\* returned paths (one per vertex, in the order of the vertex list);
\* lengths is the row of path lengths the paths were reconstructed from and
\* tables tells whether the lists of size n had been allocated
SPRaised(out, msg, tables) ==
    [out |-> out, msg |-> msg, lengths |-> <<>>, paths |-> <<>>, tables |-> tables]
SPReturned(lengths, paths) ==
    [out |-> OK, msg |-> "", lengths |-> lengths, paths |-> paths, tables |-> TRUE]

\* a variant of the check of the given vertex that returns no paths instead
\* of raising
D_return_no_paths == SPReturned(<<>>, <<>>)

\* the check of the given vertex: raise IllegalArgumentError(
\* "The source / destination vertex doesn't exist.")
D_raise_no_such_vertex == SPRaised(IllegalArgumentError, NoSuchVertex, FALSE)

\* the lists of size n = len(self._vtx_list) are indexed by vertex id: an id
\* that is not below n is out of their range
D_Indexable(g) == \A v \in Range(g.vtx_list) : v < Len(g.vtx_list)

\* a variant of the base case that leaves the 0 of [0] * n at every vertex
D_InitialLengths_all_zero(g, vtx) == [v \in Range(g.vtx_list) |-> 0]

\* [0] * n with _INFINITY stored at every vertex but the given one
D_InitialLengths(g, vtx) ==
    [v \in Range(g.vtx_list) |-> IF v # vtx THEN INFINITY ELSE 0]

RECURSIVE D_relax(_, _, _, _, _, _)
\* the inner for loop over the incident (role "tail") or emissive (role
\* "head") edges of one vertex: a candidate that is strictly shorter than
\* the minimum so far replaces it, and its other endpoint becomes the hop
D_relax(edges, role, prev, min_path_length, hop, made_update) ==
    IF edges = <<>>
    THEN [min |-> min_path_length, hop |-> hop, made_update |-> made_update]
    ELSE LET w == IF role = "tail" THEN edges[1].tail ELSE edges[1].head
             path_length == PathLength(prev[w], edges[1].length)
         IN  IF path_length < min_path_length
             THEN D_relax(Tail(edges), role, prev, path_length, w, TRUE)
             ELSE D_relax(Tail(edges), role, prev, min_path_length, hop, made_update)

\* the edges the source-driven ("tail") / destination-driven ("head")
\* variants look at
D_edges_of(g, vtx, role) ==
    IF role = "tail" THEN g.incident_edges[vtx] ELSE g.emissive_edges[vtx]

\* one outer iteration: the row for budget i from the row for budget i - 1
D_next_row(g, role, prev) ==
    [v \in Range(g.vtx_list) |->
        D_relax(D_edges_of(g, v, role), role, prev, prev[v], NoVertex, FALSE).min]

RECURSIVE D_subproblems(_, _, _, _)
\* the bottom-up calculation: the rows for the budgets 0 .. n - 1, as a
\* sequence (row i + 1 holds subproblems[v][i])
D_subproblems(g, role, rows, budget) ==
    IF budget < Len(g.vtx_list)
    THEN D_subproblems(g, role, Append(rows, D_next_row(g, role, rows[Len(rows)])),
                       budget + 1)
    ELSE rows

\* the extra iteration: whether some vertex still improves
D_made_update_in_extra_iter(g, role, last) ==
    \E v \in Range(g.vtx_list) :
        D_relax(D_edges_of(g, v, role), role, last, last[v], NoVertex, FALSE).made_update

RECURSIVE D_walk_appending(_, _, _, _, _, _)
\* a variant of the while loop that appends the hop whatever the direction
D_walk_appending(g, role, dp, curr_vtx, budget, shortest_path) ==
    IF budget >= 1
    THEN LET r == D_relax(D_edges_of(g, curr_vtx, role), role, dp[budget],
                          dp[budget][curr_vtx], curr_vtx, FALSE)
         IN  D_walk_appending(g, role, dp, r.hop, budget - 1,
                              IF r.hop # curr_vtx THEN Append(shortest_path, r.hop)
                              ELSE shortest_path)
    ELSE shortest_path

RECURSIVE D_walk(_, _, _, _, _, _)
\* the while loop of _reconstruct_shortest_paths (role "tail": the hop is put
\* in front) and of _reconstruct_shortest_paths_dest_driven (role "head":
\* the hop is appended)
D_walk(g, role, dp, curr_vtx, budget, shortest_path) ==
    IF budget >= 1
    THEN LET r == D_relax(D_edges_of(g, curr_vtx, role), role, dp[budget],
                          dp[budget][curr_vtx], curr_vtx, FALSE)
         IN  D_walk(g, role, dp, r.hop, budget - 1,
                    IF r.hop # curr_vtx
                    THEN IF role = "tail" THEN <<r.hop>> \o shortest_path
                                          ELSE Append(shortest_path, r.hop)
                    ELSE shortest_path)
    ELSE shortest_path

\* DirectedGraph._reconstruct_shortest_paths / _dest_driven: one path per
\* vertex, in the order of the vertex list
D_reconstruct_shortest_paths(g, role, dp) ==
    [i \in DOMAIN g.vtx_list |->
        D_walk(g, role, dp, g.vtx_list[i], Len(g.vtx_list) - 1, <<g.vtx_list[i]>>)]

\* the body shared by bellman_ford_shortest_paths (role "tail") and
\* bellman_ford_shortest_paths_dest_driven (role "head")
D_bellman_ford(g, role, vtx_id) ==
    IF ~D_find_vtx(g, vtx_id) THEN D_raise_no_such_vertex
    ELSE IF ~D_Indexable(g) THEN SPRaised("IndexError", "", TRUE)
    ELSE LET dp == D_subproblems(g, role, <<D_InitialLengths(g, vtx_id)>>, 1)
         IN  IF D_made_update_in_extra_iter(g, role, dp[Len(dp)])
             THEN SPRaised(IllegalArgumentError, NegativeCycle, TRUE)
             ELSE SPReturned(dp[Len(dp)], D_reconstruct_shortest_paths(g, role, dp))

\* DirectedGraph.bellman_ford_shortest_paths
bellman_ford_shortest_paths(g, src_vtx_id) == D_bellman_ford(g, "tail", src_vtx_id)

\* DirectedGraph.bellman_ford_shortest_paths_dest_driven
bellman_ford_shortest_paths_dest_driven(g, dest_vtx_id) ==
    D_bellman_ford(g, "head", dest_vtx_id)

(* The space-optimized variants *)

\* one outer iteration of the optimized variants: the new lengths, the new
\* hops (penultimate / next vertices) and whether a vertex improved
D_next_iter(g, role, prev_iter_dp, prev_iter_hops) ==
    LET r == [v \in Range(g.vtx_list) |->
                 D_relax(D_edges_of(g, v, role), role, prev_iter_dp,
                         prev_iter_dp[v], prev_iter_hops[v], FALSE)]
    IN  [dp |-> [v \in Range(g.vtx_list) |-> r[v].min],
         hops |-> [v \in Range(g.vtx_list) |-> r[v].hop],
         made_update |-> \E v \in Range(g.vtx_list) : r[v].made_update]

\* a variant of the loop test of the optimized variants that stops one
\* budget early
D_continue_short(g, budget, made_update_in_iter) ==
    budget <= Len(g.vtx_list) - 2 /\ made_update_in_iter

\* the loop test of the optimized variants:
\* budget <= n - 1 and made_update_in_iter
D_continue(g, budget, made_update_in_iter) ==
    budget <= Len(g.vtx_list) - 1 /\ made_update_in_iter

RECURSIVE D_optimized_loop(_, _, _, _, _, _)
\* the while loop with early stopping
D_optimized_loop(g, role, budget, made_update_in_iter, prev_iter_dp, prev_iter_hops) ==
    IF D_continue(g, budget, made_update_in_iter)
    THEN LET it == D_next_iter(g, role, prev_iter_dp, prev_iter_hops)
         IN  D_optimized_loop(g, role, budget + 1, it.made_update, it.dp, it.hops)
    ELSE [dp |-> prev_iter_dp, hops |-> prev_iter_hops]

RECURSIVE D_follow(_, _, _, _, _)
\* follows the hops from a vertex until a vertex without hop
D_follow(role, hops, curr, path, fuel) ==
    IF hops[curr] = NoVertex \/ fuel = 0 THEN path
    ELSE D_follow(role, hops, hops[curr],
                  IF role = "tail" THEN <<hops[curr]>> \o path ELSE Append(path, hops[curr]),
                  fuel - 1)

\* AbstractGraph._reconstruct_shortest_paths_optimized (role "tail", from the
\* penultimate vertices) / _reconstruct_shortest_paths_dest_driven_optimized
\* (role "head", from the next vertices)
D_reconstruct_shortest_paths_optimized(g, role, hops) ==
    [i \in DOMAIN g.vtx_list |->
        D_follow(role, hops, g.vtx_list[i], <<g.vtx_list[i]>>, Len(g.vtx_list))]

\* the body shared by bellman_ford_shortest_paths_optimized (role "tail")
\* and bellman_ford_shortest_paths_dest_driven_optimized (role "head")
D_bellman_ford_optimized(g, role, vtx_id) ==
    IF ~D_find_vtx(g, vtx_id) THEN D_raise_no_such_vertex
    ELSE IF ~D_Indexable(g) THEN SPRaised("IndexError", "", TRUE)
    ELSE LET r == D_optimized_loop(g, role, 1, TRUE, D_InitialLengths(g, vtx_id),
                                   [v \in Range(g.vtx_list) |-> NoVertex])
         IN  IF D_made_update_in_extra_iter(g, role, r.dp)
             THEN SPRaised(IllegalArgumentError, NegativeCycle, TRUE)
             ELSE SPReturned(r.dp, D_reconstruct_shortest_paths_optimized(g, role, r.hops))

\* DirectedGraph.bellman_ford_shortest_paths_optimized
bellman_ford_shortest_paths_optimized(g, src_vtx_id) ==
    D_bellman_ford_optimized(g, "tail", src_vtx_id)

\* DirectedGraph.bellman_ford_shortest_paths_dest_driven_optimized
bellman_ford_shortest_paths_dest_driven_optimized(g, dest_vtx_id) ==
    D_bellman_ford_optimized(g, "head", dest_vtx_id)

(* The push-based variant *)

RECURSIVE D_notify_tail(_, _, _, _)
RECURSIVE D_notify_all(_, _, _, _)
\* the for loop that notifies the tails of the given incident edges in turn;
\* st holds min_path_lengths, next_vtxs and the error raised so far
D_notify_all(g, edges, st, depth) ==
    IF edges = <<>> \/ st.err # OK THEN st
    ELSE D_notify_all(g, Tail(edges), D_notify_tail(g, edges[1], st, depth), depth)

\* a variant of _notify_tail that records the shorter length without
\* notifying the tails of the vertex's incident edges
D_notify_tail_once(g, edge, st, depth) ==
    LET next_vtx == edge.head
        curr_vtx == edge.tail
        new_path_length == PathLength(st.min_path_lengths[next_vtx], edge.length)
    IN  IF depth > RecursionLimit THEN [st EXCEPT !.err = "RecursionError"]
        ELSE IF new_path_length < st.min_path_lengths[curr_vtx]
        THEN [st EXCEPT !.min_path_lengths[curr_vtx] = new_path_length,
                        !.next_vtxs[curr_vtx] = next_vtx]
        ELSE st

\* DirectedGraph._notify_tail, depth calls deep
D_notify_tail(g, edge, st, depth) ==
    LET next_vtx == edge.head
        curr_vtx == edge.tail
        new_path_length == PathLength(st.min_path_lengths[next_vtx], edge.length)
    IN  IF depth > RecursionLimit THEN [st EXCEPT !.err = "RecursionError"]
        ELSE IF new_path_length < st.min_path_lengths[curr_vtx]
        THEN D_notify_all(g, g.incident_edges[curr_vtx],
                          [st EXCEPT !.min_path_lengths[curr_vtx] = new_path_length,
                                     !.next_vtxs[curr_vtx] = next_vtx],
                          depth + 1)
        ELSE st

\* DirectedGraph.shortest_paths_dest_driven_push_based
shortest_paths_dest_driven_push_based(g, dest_vtx_id) ==
    IF ~D_find_vtx(g, dest_vtx_id) THEN D_raise_no_such_vertex
    ELSE IF ~D_Indexable(g) THEN SPRaised("IndexError", "", TRUE)
    ELSE LET st == D_notify_all(g, g.incident_edges[dest_vtx_id],
                                [min_path_lengths |-> D_InitialLengths(g, dest_vtx_id),
                                 next_vtxs |-> [v \in Range(g.vtx_list) |-> NoVertex],
                                 err |-> OK],
                                1)
         IN  IF st.err # OK THEN SPRaised(st.err, "", TRUE)
             ELSE SPReturned(st.min_path_lengths,
                             D_reconstruct_shortest_paths_optimized(g, "head", st.next_vtxs))

----------------------------------------------------------------------------
(* The directed graphs the shortest-path calls are run on: built by        *)
(* add_vtx for the ids 0..n-1 and then by add_edge for a list of distinct  *)
(* ordered pairs                                                            *)

\* at most MaxSPVtx vertices
MaxSPVtx == 3
\* at most MaxSPEdges edges
MaxSPEdges == 3
\* the lengths of the drawn edges (the example graph below uses 4)
Lengths == {-1, 1}

RECURSIVE D_add_vertices(_, _)
\* add_vtx(0), ..., add_vtx(n - 1)
D_add_vertices(g, n) ==
    IF n = 0 THEN g
    ELSE DirectedGraph_add_vtx(D_add_vertices(g, n - 1), n - 1).g

RECURSIVE D_add_edges(_, _)
\* add_edge(tail, head, length) for every <<tail, head, length>> of es, in order
D_add_edges(g, es) ==
    IF es = <<>> THEN g
    ELSE LET e == es[Len(es)]
         IN  DirectedGraph_add_edge(
                 D_add_edges(g, SubSeq(es, 1, Len(es) - 1)), e[1], e[2], e[3]).g

D_Build(n, es) == D_add_edges(D_add_vertices(DirectedGraph_init, n), es)

RECURSIVE D_EdgeLists(_, _, _)
\* the lists of at most k add_edge calls on ordered pairs of different
\* vertices below n, the pairs in increasing order from the pair numbered lo
D_EdgeLists(n, k, lo) ==
    IF k = 0 THEN {<<>>}
    ELSE {<<>>} \cup
         UNION {{<<<<p \div n, p % n, l>>>> \o es : es \in D_EdgeLists(n, k - 1, p + 1),
                                                  l \in Lengths} :
                p \in {q \in lo..(n * n - 1) : q \div n # q % n}}

\* the example of the specification's testable properties
ExampleDigraphEdges == << <<0, 1, 4>>, <<0, 2, 1>>, <<2, 1, 1>> >>
ExampleDigraph == D_Build(3, ExampleDigraphEdges)

\* a negative cycle 0 -> 2 -> 0 on the vertices left by add_vtx(0),
\* add_vtx(1), add_vtx(2), remove_vtx(1)
GapCycleGraph ==
    D_add_edges(DirectedGraph_remove_vtx(D_add_vertices(DirectedGraph_init, 3), 1).g,
                << <<0, 2, -1>>, <<2, 0, -1>> >>)

\* a graph of four vertices on which the lengths from 0 are final after the
\* first of the three budgets
EarlyStopDigraphEdges == << <<0, 1, 1>>, <<1, 2, 1>>, <<0, 2, 2>>, <<3, 0, 1>> >>
EarlyStopDigraph == D_Build(4, EarlyStopDigraphEdges)

SPResult(op, id, r) ==
    [op |-> op, arg |-> id, out |-> r.out, msg |-> r.msg, lengths |-> r.lengths,
     paths |-> r.paths, tables |-> r.tables]

\* a graph of the bounded family, or one of the three named graphs
InitSP ==
    /\ \/ \E n \in 0..MaxSPVtx : \E es \in D_EdgeLists(n, MaxSPEdges, 0) :
              dg = D_Build(n, es)
       \/ dg \in {ExampleDigraph, GapCycleGraph, EarlyStopDigraph}
    /\ ug = UndirectedGraph_init
    /\ res = NoCall

\* the ids a call is given: the ids that can be vertices and one more
SPArgs == 0..MaxSPVtx

\* the calls read the graph only, so every call of a run starts from the
\* graph as built: a run records one call
NotCalled == res.op = "none"

BellmanFord ==
    /\ NotCalled
    /\ \E id \in SPArgs :
           res' = SPResult("bellman_ford_shortest_paths", id,
                           bellman_ford_shortest_paths(dg, id))
    /\ UNCHANGED <<ug, dg>>

BellmanFordOptimized ==
    /\ NotCalled
    /\ \E id \in SPArgs :
           res' = SPResult("bellman_ford_shortest_paths_optimized", id,
                           bellman_ford_shortest_paths_optimized(dg, id))
    /\ UNCHANGED <<ug, dg>>

BellmanFordDestDriven ==
    /\ NotCalled
    /\ \E id \in SPArgs :
           res' = SPResult("bellman_ford_shortest_paths_dest_driven", id,
                           bellman_ford_shortest_paths_dest_driven(dg, id))
    /\ UNCHANGED <<ug, dg>>

BellmanFordDestDrivenOptimized ==
    /\ NotCalled
    /\ \E id \in SPArgs :
           res' = SPResult("bellman_ford_shortest_paths_dest_driven_optimized", id,
                           bellman_ford_shortest_paths_dest_driven_optimized(dg, id))
    /\ UNCHANGED <<ug, dg>>

PushBased ==
    /\ NotCalled
    /\ \E id \in SPArgs :
           res' = SPResult("shortest_paths_dest_driven_push_based", id,
                           shortest_paths_dest_driven_push_based(dg, id))
    /\ UNCHANGED <<ug, dg>>

NextSP ==
    \/ BellmanFord
    \/ BellmanFordOptimized
    \/ BellmanFordDestDriven
    \/ BellmanFordDestDrivenOptimized
    \/ PushBased

SpecSP == InitSP /\ [][NextSP]_vars

----------------------------------------------------------------------------
(* Claims about the shortest-path calls (checked under SpecSP) *)

RECURSIVE D_Reach(_, _)
\* the vertices reachable from a vertex of S along edges
D_Reach(g, S) ==
    LET T == S \cup {e.head : e \in {x \in Range(g.edge_list) : x.tail \in S}}
    IN  IF T = S THEN S ELSE D_Reach(g, T)

\* the vertices from which v is reachable
D_CoReach(g, v) == {u \in Range(g.vtx_list) : v \in D_Reach(g, {u})}

RECURSIVE D_ClosesNegative(_, _, _, _, _)
\* whether the simple path from start to curr, of the given total length,
\* extends to a simple cycle of negative total length
D_ClosesNegative(g, start, curr, visited, total) ==
    \E e \in {x \in Range(g.edge_list) : x.tail = curr} :
        \/ e.head = start /\ total + e.length < 0
        \/ /\ e.head \notin visited
           /\ D_ClosesNegative(g, start, e.head, visited \cup {e.head}, total + e.length)

\* the vertices on a cycle of negative total length
D_OnNegativeCycle(g) ==
    {v \in Range(g.vtx_list) : D_ClosesNegative(g, v, v, {v}, 0)}

RaisedNegativeCycle == res.out = IllegalArgumentError /\ res.msg = NegativeCycle

SourceDrivenCalls ==
    {"bellman_ford_shortest_paths", "bellman_ford_shortest_paths_optimized"}
DestDrivenCalls ==
    {"bellman_ford_shortest_paths_dest_driven",
     "bellman_ford_shortest_paths_dest_driven_optimized"}
SPCalls ==
    SourceDrivenCalls \cup DestDrivenCalls \cup {"shortest_paths_dest_driven_push_based"}

\* C4: a call of bellman_ford_shortest_paths or of
\* bellman_ford_shortest_paths_optimized at a vertex of the graph raises the
\* negative-cycle error, returning no paths, if a cycle of negative length
\* is reachable from the source, and does not raise it if the graph has no
\* cycle of negative length.
C4_SourceDrivenNegativeCycle ==
    (res.op \in SourceDrivenCalls /\ res.arg \in Range(dg.vtx_list)) =>
        /\ (D_OnNegativeCycle(dg) \cap D_Reach(dg, {res.arg}) # {}) =>
               (RaisedNegativeCycle /\ res.paths = <<>>)
        /\ (D_OnNegativeCycle(dg) = {}) => ~RaisedNegativeCycle

\* C5: a call of bellman_ford_shortest_paths_dest_driven or of
\* bellman_ford_shortest_paths_dest_driven_optimized at a vertex of the
\* graph raises the negative-cycle error, returning no paths, if a cycle of
\* negative length is reachable from the destination, and does not raise it
\* if the graph has no cycle of negative length.
C5_DestDrivenNegativeCycle ==
    (res.op \in DestDrivenCalls /\ res.arg \in Range(dg.vtx_list)) =>
        /\ (D_OnNegativeCycle(dg) \cap D_Reach(dg, {res.arg}) # {}) =>
               (RaisedNegativeCycle /\ res.paths = <<>>)
        /\ (D_OnNegativeCycle(dg) = {}) => ~RaisedNegativeCycle

\* C6: a call of shortest_paths_dest_driven_push_based at a vertex that is
\* reachable from a cycle of negative length ends by raising the
\* negative-cycle error, returning no paths.
C6_PushBasedNegativeCycle ==
    (/\ res.op = "shortest_paths_dest_driven_push_based"
     /\ res.arg \in Range(dg.vtx_list)
     /\ D_OnNegativeCycle(dg) \cap D_CoReach(dg, res.arg) # {}) =>
        (RaisedNegativeCycle /\ res.paths = <<>>)

\* C7: on the graph with the vertices 0, 1, 2 and the edges (0,1,4),
\* (0,2,1), (2,1,1), bellman_ford_shortest_paths(0) returns the path [0]
\* for vertex 0, the path 0,2,1 (of length 2) for vertex 1 and the path 0,2
\* (of length 1) for vertex 2.
C7_ExampleShortestPaths ==
    (res.op = "bellman_ford_shortest_paths" /\ res.arg = 0 /\ dg = ExampleDigraph) =>
        /\ res.out = OK
        /\ res.paths = << <<0>>, <<0, 2, 1>>, <<0, 2>> >>
        /\ res.lengths[0] = 0 /\ res.lengths[1] = 2 /\ res.lengths[2] = 1

C7_Witness ==
    /\ res.op = "bellman_ford_shortest_paths" /\ res.arg = 0 /\ dg = ExampleDigraph
    /\ res.out = OK /\ Len(res.paths) = 3

\* a call ended like another one: the same outcome and, if it returned,
\* the same length for every vertex
SameLengths(r, other) ==
    /\ r.out = other.out /\ r.msg = other.msg
    /\ r.out = OK => r.lengths = other.lengths

\* C8: on a graph without a cycle of negative length, the optimized variant
\* with early stopping ends with the same length for every vertex as the
\* full-table variant (source-driven and destination-driven), and the
\* length from s to t of the source-driven call at s is the length from s
\* to t of the destination-driven call at t.  (Stated on the last call: an
\* optimized call against the full-table call at the same vertex, a
\* source-driven call at s against the destination-driven call at every t.)
C8_VariantsAgreeOnLengths ==
    (/\ res.op \in SourceDrivenCalls \cup DestDrivenCalls
     /\ res.arg \in Range(dg.vtx_list)
     /\ D_OnNegativeCycle(dg) = {}) =>
        /\ res.op = "bellman_ford_shortest_paths_optimized" =>
               SameLengths(res, bellman_ford_shortest_paths(dg, res.arg))
        /\ res.op = "bellman_ford_shortest_paths_dest_driven_optimized" =>
               SameLengths(res, bellman_ford_shortest_paths_dest_driven(dg, res.arg))
        /\ res.op = "bellman_ford_shortest_paths" =>
               \A t \in Range(dg.vtx_list) :
                   LET to_t == bellman_ford_shortest_paths_dest_driven(dg, t)
                   IN  /\ to_t.out = res.out /\ to_t.msg = res.msg
                       /\ res.out = OK => res.lengths[t] = to_t.lengths[res.arg]

\* an optimized call that stopped early and returned: the iteration for
\* budget 1 made an update, the one for budget 2 made none, and n - 1 is 3
C8_Witness ==
    /\ res.op = "bellman_ford_shortest_paths_optimized" /\ res.arg = 0
    /\ dg = EarlyStopDigraph
    /\ res.out = OK /\ res.lengths[2] = 2
    /\ LET first == D_next_iter(dg, "tail", D_InitialLengths(dg, 0),
                                [v \in Range(dg.vtx_list) |-> NoVertex])
           second == D_next_iter(dg, "tail", first.dp, first.hops)
       IN  first.made_update /\ ~second.made_update /\ 2 < Len(dg.vtx_list) - 1

\* C9: each of the five shortest-path entry points, given an id that is not
\* a vertex of the graph, raises IllegalArgumentError before the lists of
\* size n are allocated, returns no paths and leaves the graph as it is.
C9_UnknownVertexRaises ==
    [][(res'.op \in SPCalls /\ res'.arg \notin Range(dg.vtx_list)) =>
           /\ res'.out = IllegalArgumentError /\ res'.msg = NoSuchVertex
           /\ ~res'.tables /\ res'.paths = <<>>
           /\ dg' = dg]_vars

C9_Witness ==
    /\ res.op = "shortest_paths_dest_driven_push_based"
    /\ res.arg \notin Range(dg.vtx_list)
    /\ res.out = IllegalArgumentError
    /\ dg.edge_list # <<>>

----------------------------------------------------------------------------
(* Claims about remove_vtx and the adjacency views (checked under Spec) *)

\* whether an undirected / directed edge has v as an endpoint
U_touches(e, v) == e.end1 = v \/ e.end2 = v
D_touches(e, v) == e.tail = v \/ e.head = v

\* the list s without the undirected / directed edges that touch v
U_apart_from(s, v) == SelectSeq(s, LAMBDA e : ~U_touches(e, v))
D_apart_from(s, v) == SelectSeq(s, LAMBDA e : ~D_touches(e, v))

\* h is g with the vertex v and all of its edges taken out, and nothing
\* else changed
U_is_without(h, g, v) ==
    /\ h.vtx_list = SelectSeq(g.vtx_list, LAMBDA x : x # v)
    /\ h.edge_list = U_apart_from(g.edge_list, v)
    /\ DOMAIN h.edges = Range(g.vtx_list) \ {v}
    /\ DOMAIN h.neighbors = Range(g.vtx_list) \ {v}
    /\ \A w \in Range(g.vtx_list) \ {v} :
           /\ h.edges[w] = U_apart_from(g.edges[w], v)
           /\ h.neighbors[w] = g.neighbors[w] \ {v}

D_is_without(h, g, v) ==
    /\ h.vtx_list = SelectSeq(g.vtx_list, LAMBDA x : x # v)
    /\ h.edge_list = D_apart_from(g.edge_list, v)
    /\ DOMAIN h.emissive_edges = Range(g.vtx_list) \ {v}
    /\ DOMAIN h.incident_edges = Range(g.vtx_list) \ {v}
    /\ DOMAIN h.emissive_neighbors = Range(g.vtx_list) \ {v}
    /\ DOMAIN h.incident_neighbors = Range(g.vtx_list) \ {v}
    /\ \A w \in Range(g.vtx_list) \ {v} :
           /\ h.emissive_edges[w] = D_apart_from(g.emissive_edges[w], v)
           /\ h.incident_edges[w] = D_apart_from(g.incident_edges[w], v)
           /\ h.emissive_neighbors[w] = g.emissive_neighbors[w] \ {v}
           /\ h.incident_neighbors[w] = g.incident_neighbors[w] \ {v}

\* the undirected half of C11: remove_vtx of a vertex of an undirected graph
\* returns and leaves the graph without the vertex and its edges
U_RemoveVtxCascades ==
    \A v \in Range(ug.vtx_list) :
        LET r == UndirectedGraph_remove_vtx(ug, v)
        IN  r.err = OK /\ U_is_without(r.g, ug, v)

\* C11: in both graph types, from every reachable graph, remove_vtx of a
\* vertex v of the graph returns normally, and afterwards v is not in the
\* vertex list, no edge with v as an endpoint is in the edge list or in
\* another vertex's edge lists and neighbor-id sets, and every other vertex
\* and edge is as before, whatever the number of edges at v.
C11_RemoveVtxCascades ==
    /\ U_RemoveVtxCascades
    /\ \A v \in Range(dg.vtx_list) :
           LET r == DirectedGraph_remove_vtx(dg, v)
           IN  r.err = OK /\ D_is_without(r.g, dg, v)

\* no two positions of the list s hold edges with the same value of other
Distinct(s, other(_)) ==
    \A i \in DOMAIN s : \A j \in DOMAIN s : i # j => other(s[i]) # other(s[j])

\* C12: after any sequence of add_vtx, add_edge, remove_edge and remove_vtx
\* calls, returned or failed, an undirected vertex holds at most one edge
\* per neighbor, a directed vertex at most one emissive edge per head and at
\* most one incident edge per tail, and no edge joins a vertex to itself.
C12_OneEdgePerNeighbor ==
    /\ \A v \in DOMAIN ug.edges :
           /\ Distinct(ug.edges[v], LAMBDA e : U_neighbor_of(v, e))
           /\ \A i \in DOMAIN ug.edges[v] : ug.edges[v][i].end1 # ug.edges[v][i].end2
    /\ \A i \in DOMAIN ug.edge_list : ug.edge_list[i].end1 # ug.edge_list[i].end2
    /\ \A v \in DOMAIN dg.emissive_edges :
           /\ Distinct(dg.emissive_edges[v], LAMBDA e : e.head)
           /\ \A i \in DOMAIN dg.emissive_edges[v] :
                  dg.emissive_edges[v][i].tail # dg.emissive_edges[v][i].head
    /\ \A v \in DOMAIN dg.incident_edges :
           /\ Distinct(dg.incident_edges[v], LAMBDA e : e.tail)
           /\ \A i \in DOMAIN dg.incident_edges[v] :
                  dg.incident_edges[v][i].tail # dg.incident_edges[v][i].head
    /\ \A i \in DOMAIN dg.edge_list : dg.edge_list[i].tail # dg.edge_list[i].head

\* an undirected vertex holds edges to two neighbors and add_edge between it
\* and one of them has just been refused
C12_Witness ==
    /\ res.op = "U.add_edge"
    /\ res.out = IllegalArgumentError
    /\ \E v \in DOMAIN ug.edges : Len(ug.edges[v]) = 2

\* the undirected / directed edges held anywhere in the graph
U_all_edges(g) ==
    Range(g.edge_list) \cup UNION {Range(g.edges[v]) : v \in DOMAIN g.edges}
D_all_edges(g) ==
    Range(g.edge_list)
        \cup UNION {Range(g.emissive_edges[v]) : v \in DOMAIN g.emissive_edges}
        \cup UNION {Range(g.incident_edges[v]) : v \in DOMAIN g.incident_edges}

\* whether the list that f keeps for vertex v holds the edge e
Holds(f, v, e) == v \in DOMAIN f /\ e \in Range(f[v])

\* C13: after any sequence of mutation calls, returned or failed, an edge is
\* in the graph's edge list if and only if it is in the adjacency lists of
\* both endpoints (undirected: both edge lists; directed: the emissive list
\* of the tail and the incident list of the head), an adjacency list holds
\* no edge that the edge list lacks, the endpoints of every listed edge are
\* in the vertex list, and every neighbor-id set is exactly the set of the
\* other endpoints of the edges in the matching list.
C13_EdgeViewsAgree ==
    /\ \A e \in U_all_edges(ug) :
           /\ e \in Range(ug.edge_list)
           /\ Holds(ug.edges, e.end1, e) /\ Holds(ug.edges, e.end2, e)
           /\ e.end1 \in Range(ug.vtx_list) /\ e.end2 \in Range(ug.vtx_list)
    /\ DOMAIN ug.edges = Range(ug.vtx_list) /\ DOMAIN ug.neighbors = Range(ug.vtx_list)
    /\ \A v \in DOMAIN ug.edges :
           ug.neighbors[v] = {U_neighbor_of(v, e) : e \in Range(ug.edges[v])}
    /\ \A e \in D_all_edges(dg) :
           /\ e \in Range(dg.edge_list)
           /\ Holds(dg.emissive_edges, e.tail, e) /\ Holds(dg.incident_edges, e.head, e)
           /\ e.tail \in Range(dg.vtx_list) /\ e.head \in Range(dg.vtx_list)
    /\ DOMAIN dg.emissive_edges = Range(dg.vtx_list)
    /\ DOMAIN dg.incident_edges = Range(dg.vtx_list)
    /\ \A v \in DOMAIN dg.emissive_edges :
           /\ dg.emissive_neighbors[v] = {e.head : e \in Range(dg.emissive_edges[v])}
           /\ dg.incident_neighbors[v] = {e.tail : e \in Range(dg.incident_edges[v])}
           /\ \A e \in Range(dg.emissive_edges[v]) : e.tail = v
           /\ \A e \in Range(dg.incident_edges[v]) : e.head = v

\* remove_vtx of a directed vertex with an edge has just failed after taking
\* one edge out of the three views, and another edge is still held
C13_Witness ==
    /\ res.op = "D.remove_vtx"
    /\ res.out = IllegalArgumentError
    /\ Len(dg.edge_list) = 1
    /\ Len(dg.vtx_list) = 3

----------------------------------------------------------------------------
(* Claims about clustering_with_max_spacing (checked under SpecMST) *)

ClusteringCall == res.op = "clustering_with_max_spacing"

\* the edges of g whose endpoints the assignment c puts in different clusters
U_separated(g, c) == {e \in Range(g.edge_list) : c[e.end1] # c[e.end2]}

\* the smallest cost in the non-empty edge set E
MinCost(E) == CHOOSE x \in {e.cost : e \in E} : \A e \in E : x <= e.cost

\* the spacing of the clustering c of g: the least cost of a separated edge
U_spacing(g, c) == MinCost(U_separated(g, c))

\* the ways to put the vertices of g into exactly k non-empty clusters
U_clusterings(g, k) ==
    {c \in [Range(g.vtx_list) -> 1..k] : \A j \in 1..k : \E v \in DOMAIN c : c[v] = j}

\* C14: on a connected graph with n vertices and 1 < k < n,
\* clustering_with_max_spacing(k) merges along n - k edges in ascending cost
\* order, which leaves exactly k groups, and returns from inside the loop
\* the cost of the next edge whose endpoints have different leaders; that
\* value is the least cost of an edge between two of the k groups, no merged
\* edge costs more, and no clustering into k groups has a larger spacing.
C14_ClusteringMaxSpacing ==
    (ClusteringCall /\ U_IsConnected(ug) /\ 1 < res.arg /\ res.arg < Len(ug.vtx_list)) =>
        /\ res.out = OK
        /\ res.at = "loop"
        /\ Len(res.tree) = Len(ug.vtx_list) - res.arg
        /\ \A i \in DOMAIN res.tree : \A j \in DOMAIN res.tree :
               i < j => res.tree[i].cost <= res.tree[j].cost
        /\ Cardinality({res.clusters[v] : v \in DOMAIN res.clusters}) = res.arg
        /\ \A v \in DOMAIN res.clusters : \A w \in DOMAIN res.clusters :
               res.clusters[v] = res.clusters[w] <=> w \in U_Reach(Range(res.tree), {v})
        /\ res.value = U_spacing(ug, res.clusters)
        /\ \A i \in DOMAIN res.tree : res.tree[i].cost <= res.value
        /\ \A c \in U_clusterings(ug, res.arg) : U_spacing(ug, c) <= res.value

\* a call with k = 2 on a connected graph of three vertices whose edges do
\* not all cost the same has returned the larger cost
C14_Witness ==
    /\ ClusteringCall
    /\ U_IsConnected(ug)
    /\ Len(ug.vtx_list) = 3
    /\ Len(ug.edge_list) = 3
    /\ res.arg = 2
    /\ res.value = 2
    /\ \E i \in DOMAIN ug.edge_list : ug.edge_list[i].cost = 1

ExampleClustering == AsBuilt(ug) = ExampleGraph /\ ClusteringCall /\ res.arg = 2

\* C15 as stated: on the example graph clustering_with_max_spacing(2)
\* returns 3, the cost of the edge (0,2).
C15_ExampleMaxSpacingIs3 ==
    ExampleClustering => (res.out = OK /\ res.value = 3)

\* C15 as amended: on the example graph clustering_with_max_spacing(2)
\* merges along (0,1) and (2,3), which leaves the groups {0,1} and {2,3},
\* and returns 2, the cost of the edge (1,2), the cheapest edge between the
\* two groups.
C15_ExampleMaxSpacing ==
    ExampleClustering =>
        /\ res.out = OK
        /\ res.value = 2
        /\ res.tree = <<UndirectedEdge(0, 1, 1), UndirectedEdge(2, 3, 1)>>
        /\ res.clusters[0] = res.clusters[1]
        /\ res.clusters[2] = res.clusters[3]
        /\ res.clusters[0] # res.clusters[2]

C15_Witness == ExampleClustering /\ res.at = "loop"

\* C19: for every graph and every k > 1, clustering_with_max_spacing(k)
\* returns from inside its loop over the edges with the cost of an edge
\* whose endpoints have different leaders; it never leaves by the trailing
\* return 0.0, also when k is at least the number of vertices or the graph
\* has exactly k connected components.
C19_ClusteringReturnsInLoop ==
    (ClusteringCall /\ res.arg > 1) =>
        /\ res.at = "loop"
        /\ \E e \in U_separated(ug, res.clusters) : res.value = e.cost

----------------------------------------------------------------------------
(* Claims about the calls as queries and about their steps (SpecMST) *)

\* the values prim_mst_straightforward can return on g, over its start vertices
PrimValues(g) ==
    {LET r == prim_mst_straightforward(g, i) IN <<r.out, r.value>> : i \in PrimStarts(g)}

\* C16: every MST and clustering entry point is a pure query: the vertex
\* list, the edge list and the adjacency stay as built, a call returns what
\* the same call returns on the graph as built, whatever calls came before
\* it, and a call of kruskal_mst_straightforward right after another one
\* returns what that one returned; the explored flags that
\* kruskal_mst_straightforward sets do not influence a later call.
C16_CallsArePureQueries ==
    /\ kruskal_mst_straightforward(ug).value = kruskal_mst_straightforward(AsBuilt(ug)).value
    /\ kruskal_mst_improved(ug).value = kruskal_mst_improved(AsBuilt(ug)).value
    /\ PrimValues(ug) = PrimValues(AsBuilt(ug))
    /\ \A k \in 0..MaxClusters :
           clustering_with_max_spacing(ug, k).value
               = clustering_with_max_spacing(AsBuilt(ug), k).value
    /\ res.op = "kruskal_mst_straightforward" =>
           kruskal_mst_straightforward(ug).value = res.value

\* whether the edge set E holds no cycle among the vertices V
U_acyclic(V, E) == Cardinality(E) = Cardinality(V) - Cardinality(U_Components(V, E))

\* C17: in a call of kruskal_mst_straightforward on a graph as built, the
\* edge at every position of the sorted order is accepted if and only if
\* the edges accepted before it hold no path between its endpoints, and the
\* accepted edges hold no cycle.
C17_KruskalAcceptsIffNoPath ==
    (res.op = "kruskal_mst_straightforward" /\ res.fresh) =>
        LET edges == sorted(ug.edge_list)
        IN  /\ \A i \in DOMAIN edges :
                   edges[i] \in Range(res.tree)
                       <=> edges[i].end2
                               \notin U_Reach(AcceptedBefore(edges, res.tree, i),
                                              {edges[i].end1})
            /\ U_acyclic(Range(ug.vtx_list), Range(res.tree))
            /\ Len(res.tree) = Cardinality(Range(res.tree))

\* the endpoints of the first i edges of tree
EndsOfFirst(tree, i) ==
    UNION {{tree[j].end1, tree[j].end2} : j \in 1..i}

\* C18: in a call of prim_mst_straightforward every edge added to the tree
\* after the first has exactly one endpoint among the vertices spanned when
\* it is added, so no edge between two spanned vertices is ever added; on a
\* connected graph with n vertices the call returns with n - 1 tree edges
\* and the sum of their costs.
C18_PrimAddsCrossingEdges ==
    (res.op = "prim_mst_straightforward" /\ ug.vtx_list # <<>>) =>
        /\ \A i \in 2..Len(res.tree) :
               (res.tree[i].end1 \in EndsOfFirst(res.tree, i - 1))
                   # (res.tree[i].end2 \in EndsOfFirst(res.tree, i - 1))
        /\ U_IsConnected(ug) =>
               /\ res.out = OK
               /\ Len(res.tree) = Len(ug.vtx_list) - 1
               /\ res.value = SumCost(res.tree)

----------------------------------------------------------------------------
(* Claims about the table of the Bellman-Ford calls (checked under SpecSP) *)

FullTableCalls ==
    {"bellman_ford_shortest_paths", "bellman_ford_shortest_paths_dest_driven"}

\* the pairs <<v, l>> after one more edge: for the source-driven call the
\* edge leaves the end of the walk, for the destination-driven call it
\* enters the start of the walk
D_one_more_edge(g, role, P) ==
    {<<IF role = "tail" THEN e.head ELSE e.tail, p[2] + e.length>> :
        <<e, p>> \in {x \in Range(g.edge_list) \X P :
                         x[2][1] = IF role = "tail" THEN x[1].tail ELSE x[1].head}}

RECURSIVE D_walks(_, _, _, _)
\* the pairs <<v, l>> such that a sequence of at most i edges, each starting
\* where the one before ends, of total length l, leads from vtx to v (role
\* "tail") or from v to vtx (role "head")
D_walks(g, role, vtx, i) ==
    IF i = 0 THEN {<<vtx, 0>>}
    ELSE LET P == D_walks(g, role, vtx, i - 1)
         IN  P \cup D_one_more_edge(g, role, P)

\* the least total length of such a sequence for v, +infinity without one
D_min_length(g, role, vtx, v, i) ==
    LET L == {p[2] : p \in {q \in D_walks(g, role, vtx, i) : q[1] = v}}
    IN  IF L = {} THEN INFINITY ELSE CHOOSE l \in L : \A m \in L : l <= m

\* whether no sequence of edges at all joins vtx and v in the call's direction
D_unreachable(g, role, vtx, v) ==
    IF role = "tail" THEN v \notin D_Reach(g, {vtx}) ELSE vtx \notin D_Reach(g, {v})

\* C20: in bellman_ford_shortest_paths and bellman_ford_shortest_paths_dest_driven,
\* once the table is filled (the given vertex exists and the lists of size n
\* take every vertex id), subproblems[v][i] is, for every vertex v and every
\* budget i in 0 .. n - 1, the least total length of an edge sequence of at
\* most i edges from the source to v (from v to the destination), edges and
\* vertices allowed to repeat, and +infinity without such a sequence; the
\* entries of vertices that are not reachable at all are +infinity, every
\* row is non-increasing in i, and a call that returns has reconstructed its
\* paths from the column of budget n - 1.
C20_SubproblemsAreMinLengths ==
    (res.op \in FullTableCalls /\ res.tables /\ res.out # "IndexError") =>
        LET role == IF res.op = "bellman_ford_shortest_paths" THEN "tail" ELSE "head"
            n == Len(dg.vtx_list)
            dp == D_subproblems(dg, role, <<D_InitialLengths(dg, res.arg)>>, 1)
        IN  /\ Len(dp) = n
            /\ \A v \in Range(dg.vtx_list) : \A i \in 0..(n - 1) :
                   /\ dp[i + 1][v] = D_min_length(dg, role, res.arg, v, i)
                   /\ D_unreachable(dg, role, res.arg, v) => dp[i + 1][v] = INFINITY
                   /\ i >= 1 => dp[i + 1][v] <= dp[i][v]
            /\ res.out = OK => res.lengths = dp[n]

\* a source-driven call has returned on a graph where an edge of negative
\* length joins two vertices the source does not reach
C20_Witness ==
    /\ res.op = "bellman_ford_shortest_paths"
    /\ res.out = OK
    /\ \E i \in DOMAIN dg.edge_list :
           /\ dg.edge_list[i].length < 0
           /\ res.lengths[dg.edge_list[i].tail] = INFINITY
           /\ res.lengths[dg.edge_list[i].head] = INFINITY

----------------------------------------------------------------------------
(* Claims about the reconstructed paths and the push-based call (SpecSP) *)

\* whether g has an edge from a to b
D_has_edge(g, a, b) == \E e \in Range(g.edge_list) : e.tail = a /\ e.head = b

\* the length of the edge of g from a to b
D_edge_length(g, a, b) ==
    (CHOOSE e \in Range(g.edge_list) : e.tail = a /\ e.head = b).length

\* whether every id of the sequence p is joined to the next one by an edge
D_follows_edges(g, p) ==
    \A j \in 1..(Len(p) - 1) : D_has_edge(g, p[j], p[j + 1])

RECURSIVE D_total_length(_, _)
\* the sum of the lengths of the edges along p
D_total_length(g, p) ==
    IF Len(p) <= 1 THEN 0
    ELSE D_edge_length(g, p[1], p[2]) + D_total_length(g, Tail(p))

\* C21: when bellman_ford_shortest_paths returns, the path of every vertex v
\* that the source reaches starts at the source, ends at v, follows existing
\* edges from tail to head, has at most n - 1 edges and has the total length
\* subproblems[v][n - 1]; the path of a vertex the source does not reach is
\* the single id v; and at every budget level the walk back takes a hop only
\* where the table entry of that budget is strictly smaller than the entry
\* of the budget below, so a path has as few edges as a budget needs to
\* reach its length.
C21_ReconstructedPaths ==
    (res.op = "bellman_ford_shortest_paths" /\ res.out = OK) =>
        LET n == Len(dg.vtx_list)
            dp == D_subproblems(dg, "tail", <<D_InitialLengths(dg, res.arg)>>, 1)
        IN  /\ Len(res.paths) = n
            /\ \A i \in DOMAIN dg.vtx_list :
                   LET v == dg.vtx_list[i]
                       p == res.paths[i]
                   IN  IF v \in D_Reach(dg, {res.arg})
                       THEN /\ p[1] = res.arg
                            /\ p[Len(p)] = v
                            /\ D_follows_edges(dg, p)
                            /\ Len(p) - 1 <= n - 1
                            /\ D_total_length(dg, p) = dp[n][v]
                            /\ res.lengths[v] = dp[n][v]
                            /\ \A b \in 0..(Len(p) - 2) : dp[b + 1][v] > dp[n][v]
                       ELSE p = <<v>>
            /\ \A v \in Range(dg.vtx_list) : \A b \in 1..(n - 1) :
                   D_relax(D_edges_of(dg, v, "tail"), "tail", dp[b], dp[b][v],
                           v, FALSE).hop # v
                       => dp[b + 1][v] < dp[b][v]

\* a call has returned a path of two edges for a vertex that also has an
\* edge from the source
C21_Witness ==
    /\ res.op = "bellman_ford_shortest_paths"
    /\ res.out = OK
    /\ \E i \in DOMAIN res.paths :
           Len(res.paths[i]) = 3 /\ D_has_edge(dg, res.arg, dg.vtx_list[i])

\* min_path_lengths, next_vtxs and the error state as
\* shortest_paths_dest_driven_push_based sets them up for the destination
D_push_start(g, dest_vtx_id) ==
    [min_path_lengths |-> D_InitialLengths(g, dest_vtx_id),
     next_vtxs |-> [v \in Range(g.vtx_list) |-> NoVertex],
     err |-> OK]

\* C22: on a graph without a cycle of negative length
\* shortest_paths_dest_driven_push_based ends without exhausting the
\* recursion; when the notifications have ended (the destination exists and
\* the lists of size n take every vertex id) min_path_lengths[v] is, for
\* every vertex v, the length of a shortest path from v to the destination,
\* which is the value bellman_ford_shortest_paths_dest_driven returns, and
\* +infinity without a path; next_vtxs[v] is the head of an edge from v that
\* begins such a path, and None for the destination and for a vertex without
\* a path; one more notification along any edge changes nothing, and a
\* notification never raises a length.
C22_PushBasedShortestLengths ==
    (/\ res.op = "shortest_paths_dest_driven_push_based"
     /\ D_OnNegativeCycle(dg) = {}) =>
        /\ res.out # "RecursionError"
        /\ (D_find_vtx(dg, res.arg) /\ D_Indexable(dg)) =>
               LET n == Len(dg.vtx_list)
                   start == D_push_start(dg, res.arg)
                   st == D_notify_all(dg, dg.incident_edges[res.arg], start, 1)
                   bf == bellman_ford_shortest_paths_dest_driven(dg, res.arg)
               IN  /\ res.out = OK /\ st.err = OK /\ bf.out = OK
                   /\ res.lengths = st.min_path_lengths
                   /\ st.min_path_lengths = bf.lengths
                   /\ \A v \in Range(dg.vtx_list) :
                          /\ st.min_path_lengths[v]
                                 = D_min_length(dg, "head", res.arg, v, n - 1)
                          /\ IF v = res.arg \/ res.arg \notin D_Reach(dg, {v})
                             THEN st.next_vtxs[v] = NoVertex
                             ELSE /\ D_has_edge(dg, v, st.next_vtxs[v])
                                  /\ st.min_path_lengths[v]
                                         = D_edge_length(dg, v, st.next_vtxs[v])
                                               + st.min_path_lengths[st.next_vtxs[v]]
                   /\ \A e \in Range(dg.edge_list) :
                          /\ D_notify_tail(dg, e, st, 1) = st
                          /\ \A v \in Range(dg.vtx_list) :
                                 D_notify_tail(dg, e, start, 1).min_path_lengths[v]
                                     <= start.min_path_lengths[v]

\* a call has returned on a graph where a vertex's shortest path to the
\* destination has two edges and is shorter than its edge to the destination
C22_Witness ==
    /\ res.op = "shortest_paths_dest_driven_push_based"
    /\ res.out = OK
    /\ \E v \in Range(dg.vtx_list) :
           /\ D_has_edge(dg, v, res.arg)
           /\ res.lengths[v] < D_edge_length(dg, v, res.arg)

\* C23: on every directed graph that add_vtx, add_edge, remove_edge and
\* remove_vtx calls can build, a shortest-path call at an existing vertex
\* indexes its lists of size n (the number of vertices) only at positions
\* 0 .. n - 1: every vertex id is smaller than n, also after remove_vtx has
\* left a gap in the ids, and no call ends with IndexError.
C23_TablesIndexedInRange ==
    (res.op \in SPCalls /\ D_find_vtx(dg, res.arg)) =>
        /\ \A v \in Range(dg.vtx_list) : v < Len(dg.vtx_list)
        /\ res.out # "IndexError"

----------------------------------------------------------------------------
(* Claims about the heap of prim_mst_straightforward (checked under SpecPrim) *)

\* C24: on every connected graph with at least one vertex and for every
\* start vertex, prim_mst_straightforward returns with every vertex id in
\* spanned and never pops from an empty heap; every iteration of the loop
\* takes one entry off the heap, and at most 2m entries are pushed over the
\* whole call, m being the number of edges.
C24_PrimTerminatesWithinHeapBound ==
    (res.op = "prim_mst_straightforward" /\ U_IsConnected(ug)) =>
        /\ res.out = OK
        /\ res.spanned = Range(ug.vtx_list)
        /\ Len(res.tree) <= res.pushed
        /\ res.pushed <= 2 * Len(ug.edge_list)

====
